---- MODULE Spec2Model ----
(***************************************************************************)
(* Model of the pexels command-line client: the retrying request executor  *)
(* (api.rs req / req_bytes), the backoff calculator (util.rs), the direct  *)
(* calls of quota_view / util_ping, the pagination aggregator (api.rs     *)
(* req_paginated), the response shaper (cli.rs shape_output, output.rs     *)
(* parse_page_number) and the field projector (proj.rs).                   *)
(***************************************************************************)
EXTENDS Integers, Sequences, FiniteSets, TLC

VARIABLES
    cfg,        \* Config + Cli flags captured at call start (read-only)
    op,         \* the client operation being run
    pc,         \* position in the running operation
    attempt,    \* req: `let mut attempt = 0`
    requests,   \* number of send() calls of the current req call
    sent,       \* number of send() calls of the whole operation
    ans,        \* the answer to the request in flight, once received
    slept,      \* the sleep in progress between two attempts, or None
    result,     \* what the operation returned (Ok / Err), or None
    diag,       \* diagnostics of the run and of its twin with another secret
    pages,      \* req_paginated: `pages`
    collected,  \* req_paginated: `collected`
    next,       \* req_paginated: `next`
    aggregate,  \* req_paginated: `aggregate`
    resp,       \* req_paginated: `resp`, the page being merged
    cursor,     \* req_paginated: position in `for item in arr`
    fetched,    \* the pages fetched so far, in order
    fn,         \* input and output of a pure function under check
    reachable,  \* run_quota: `reachable`, once util_ping has answered
    emitted     \* what the process wrote to stdout and stderr, and its exit status

vars == <<cfg, op, pc, attempt, requests, sent, ans, slept, result, diag,
          pages, collected, next, aggregate, resp, cursor, fetched, fn,
          reachable, emitted>>

None == [t |-> "none"]

(***************************************************************************)
(* u64 arithmetic.  A u64 is four 16-bit limbs, least significant first,   *)
(* so that 2^64 - 1 and the overflow of `exp + jitter` are exact.          *)
(***************************************************************************)
Limb == 2^16

U64(n) == <<n % Limb, (n \div Limb) % Limb, 0, 0>>

U64_MAX == <<Limb - 1, Limb - 1, Limb - 1, Limb - 1>>

\* a * b for a small multiplier a (a < 2^15): value modulo 2^64 and carry out
checked_mul(a, b) ==
    LET p1 == b[1] * a
        p2 == b[2] * a + (p1 \div Limb)
        p3 == b[3] * a + (p2 \div Limb)
        p4 == b[4] * a + (p3 \div Limb)
    IN  [val |-> <<p1 % Limb, p2 % Limb, p3 % Limb, p4 % Limb>>,
         overflow |-> (p4 \div Limb) > 0]

\* u64::saturating_mul
saturating_mul(a, b) ==
    IF checked_mul(a, b).overflow THEN U64_MAX ELSE checked_mul(a, b).val

\* 2u64.saturating_pow(e): 2^e, or u64::MAX once 2^e does not fit
saturating_pow(e) ==
    IF e >= 64 THEN U64_MAX
    ELSE [i \in 1..4 |-> IF i = (e \div 16) + 1 THEN 2^(e % 16) ELSE 0]

\* x / 2
Half(x) ==
    [i \in 1..4 |-> (x[i] \div 2) + (IF i < 4 THEN (x[i + 1] % 2) * 2^15 ELSE 0)]

\* x + y: value modulo 2^64 and whether it overflowed
overflowing_add(x, y) ==
    LET s1 == x[1] + y[1]
        s2 == x[2] + y[2] + (s1 \div Limb)
        s3 == x[3] + y[3] + (s2 \div Limb)
        s4 == x[4] + y[4] + (s3 \div Limb)
    IN  [val |-> <<s1 % Limb, s2 % Limb, s3 % Limb, s4 % Limb>>,
         overflow |-> (s4 \div Limb) > 0]

\* x <= y on u64
U64Le(x, y) ==
    \/ x[4] < y[4]
    \/ x[4] = y[4] /\ x[3] < y[3]
    \/ x[4] = y[4] /\ x[3] = y[3] /\ x[2] < y[2]
    \/ x[4] = y[4] /\ x[3] = y[3] /\ x[2] = y[2] /\ x[1] <= y[1]

\* u64::min
U64Min(x, y) == IF U64Le(x, y) THEN x ELSE y

\* the integer a u64 below 2^31 stands for
U64ToInt(x) == x[1] + x[2] * Limb

(***************************************************************************)
(* util.rs: backoff_delay                                                  *)
(***************************************************************************)
base == 100

max == 5000

\* the draws of rng.gen_range(0..=hi) the model follows: both ends of the
\* range, the value next to the low end and the middle
Draws == {"low", "low1", "mid", "high"}

gen_range(hi, draw) ==
    CASE draw = "low"  -> U64(0)
      [] draw = "low1" -> U64Min(U64(1), hi)
      [] draw = "mid"  -> Half(hi)
      [] draw = "high" -> hi

\* `exp + jitter` is an unchecked `+`: a build with overflow checks panics on
\* overflow, a build without them wraps.
backoff_exp(a) == saturating_mul(base, saturating_pow(a))

backoff_delay(a, draw, overflow_checks) ==
    LET exp    == backoff_exp(a)
        jitter == gen_range(Half(exp), draw)
        sum    == overflowing_add(exp, jitter)
    IN  IF sum.overflow /\ overflow_checks
        THEN [panic |-> TRUE, overflow |-> TRUE, ms |-> 0]
        ELSE [panic |-> FALSE, overflow |-> sum.overflow,
              ms |-> U64ToInt(U64Min(sum.val, U64(max)))]

(***************************************************************************)
(* Values: Option, JSON values, strings of characters                      *)
(***************************************************************************)
Some(v) == [t |-> "some", v |-> v]

Num(n) == [t |-> "num", v |-> n]

Str(s) == [t |-> "str", v |-> s]

Arr(a) == [t |-> "arr", v |-> a]

Obj(m) == [t |-> "obj", v |-> m]

\* serde_json::Map::insert
Insert(m, k, v) == [x \in (DOMAIN m) \cup {k} |-> IF x = k THEN v ELSE m[x]]

\* u32::MAX, on a word of U32Bits bits
U32Bits == 4

U32_MAX == 2^U32Bits - 1

(***************************************************************************)
(* The environment: what the upstream can answer                           *)
(***************************************************************************)
MaxRetries == 58

MaxAttempt == 66

SmallRetries == 3

PagedRetries == 1

MaxPageItems == 2

MaxUpstreamPages == 3

MaxLimit == 3

MaxPagesArg == 2

Statuses == {200, 400, 401, 404, 429, 500, 503}

\* the statuses followed in paginated runs
PagedStatuses == {200, 404, 500}

\* Retry-After header values, as strings
HeaderValues == {<<"1">>, <<"+", "2">>, <<"-", "1">>, <<"s", "o", "o", "n">>}

RetryAfterHeaders == {None} \cup {Some(h) : h \in HeaderValues}

Secrets == {<<"a">>, <<"b">>, <<"a", "b">>}

\* the credential of the run and the credential of its twin
SecretPairs == {<<<<"a">>, <<"b">>>>, <<<<"a">>, <<"a", "b">>>>}

\* the text of a transport error that embeds the credential `secret`
ErrorText(secret) == <<"k", "e", "y", "=">> \o secret \o <<" ", "d", "o", "w", "n">>

(***************************************************************************)
(* api.rs helpers                                                          *)
(***************************************************************************)
is_success(status) == status \in 200..299

is_server_error(status) == status \in 500..599

TOO_MANY_REQUESTS == 429

\* is_retryable with every failure status taken for a retryable one
is_retryable_any_failure(status) == status >= 400

\* the guard of the retry branch of the Ok(resp) arm
is_retryable(status) == status = TOO_MANY_REQUESTS \/ is_server_error(status)

\* budget_left with the budget one retry short
budget_left_short(a, max_retries) == a + 1 < max_retries

\* `attempt < self.cfg.max_retries`
budget_left(a, max_retries) == a < max_retries

\* StatusCode::canonical_reason().unwrap_or("error")
canonical_reason(status) ==
    CASE status = 200 -> "OK"
      [] status = 400 -> "Bad Request"
      [] status = 401 -> "Unauthorized"
      [] status = 404 -> "Not Found"
      [] status = 429 -> "Too Many Requests"
      [] status = 500 -> "Internal Server Error"
      [] status = 503 -> "Service Unavailable"
      [] OTHER -> "error"

\* http_error turned into a success that hands out what was collected so far
http_error_partial(r) == [t |-> "ok", body |-> Obj(aggregate)]

http_error(r) ==
    [t |-> "http", code |-> r.status, reason |-> canonical_reason(r.status)]

Digits == {"0", "1", "2", "3", "4", "5", "6", "7", "8", "9"}

DigitValue(c) ==
    CASE c = "0" -> 0 [] c = "1" -> 1 [] c = "2" -> 2 [] c = "3" -> 3
      [] c = "4" -> 4 [] c = "5" -> 5 [] c = "6" -> 6 [] c = "7" -> 7
      [] c = "8" -> 8 [] c = "9" -> 9

RECURSIVE DecimalValue(_)
DecimalValue(s) ==
    IF s = <<>> THEN 0
    ELSE DecimalValue(SubSeq(s, 1, Len(s) - 1)) * 10 + DigitValue(s[Len(s)])

\* str::parse::<u64>: an optional "+", then one or more digits
parse_u64(s) ==
    LET body == IF s # <<>> /\ s[1] = "+" THEN Tail(s) ELSE s
    IN  IF body # <<>> /\ \A i \in 1..Len(body) : body[i] \in Digits
        THEN Some(DecimalValue(body))
        ELSE None

\* Duration::from_secs, in milliseconds
from_secs(secs) == secs * 1000

\* retry_after_delay with the server's header consulted before the override
retry_after_delay_header_first(r, a, override_secs, draw, overflow_checks) ==
    IF r.retry_after # None /\ parse_u64(r.retry_after.v) # None
    THEN [panic |-> FALSE, overflow |-> FALSE,
          ms |-> from_secs(parse_u64(r.retry_after.v).v)]
    ELSE IF override_secs # None
    THEN [panic |-> FALSE, overflow |-> FALSE, ms |-> from_secs(override_secs.v)]
    ELSE backoff_delay(a, draw, overflow_checks)

\* api.rs retry_after_delay; the result is [panic, overflow, ms]
retry_after_delay(r, a, override_secs, draw, overflow_checks) ==
    IF override_secs # None
    THEN [panic |-> FALSE, overflow |-> FALSE, ms |-> from_secs(override_secs.v)]
    ELSE IF r.retry_after # None /\ parse_u64(r.retry_after.v) # None
    THEN [panic |-> FALSE, overflow |-> FALSE,
          ms |-> from_secs(parse_u64(r.retry_after.v).v)]
    ELSE backoff_delay(a, draw, overflow_checks)

is_ascii_graphic(c) == c # " "

\* api.rs redact
redact(s) == [i \in 1..Len(s) |-> IF is_ascii_graphic(s[i]) THEN "*" ELSE s[i]]

DigitChar(d) == CHOOSE c \in Digits : DigitValue(c) = d

\* the decimal text of n
RECURSIVE ToDigits(_)
ToDigits(n) ==
    IF n < 10 THEN <<DigitChar(n)>>
    ELSE ToDigits(n \div 10) \o <<DigitChar(n % 10)>>

\* a URL string: its scheme prefix ("" for a relative reference), whether the
\* rest is well formed, and its decoded query pairs
UrlString(scheme, wellformed, query) ==
    [scheme |-> scheme, wellformed |-> wellformed, query |-> query]

\* `url.starts_with("http://") || url.starts_with("https://")`
starts_with_http(url) == url.scheme \in {"http://", "https://"}

\* Url::parse: a relative reference has no base and does not parse
Url_parse(s) ==
    IF s.scheme # "" /\ s.wellformed THEN Some([query |-> s.query]) ELSE None

(***************************************************************************)
(* Operations and their routes to the upstream                             *)
(***************************************************************************)
ListOps == {"search", "curated", "collections"}

DirectOps == {"quota", "ping"}

\* commands that never contact the upstream: `auth status`, `config set`
LocalOps == {"auth_status", "config_set"}

Ops == ListOps \cup DirectOps \cup {"get", "bytes"}

\* the item_keys each list operation passes to req_paginated
item_keys(o) ==
    IF o = "collections" THEN <<"collections", "collections">>
    ELSE <<"photos", "photos">>

in_key(o) == item_keys(o)[1]

out_key(o) == item_keys(o)[2]

\* `cli.all || cli.limit.is_some() || cli.max_pages.is_some()`
wants_pages(c) == c.all \/ c.limit # None \/ c.max_pages # None

Route(o, c) ==
    IF o \in LocalOps THEN "local"
    ELSE IF o \in DirectOps THEN "direct"
    ELSE IF o \in ListOps /\ wants_pages(c) THEN "paginated"
    ELSE "req"

\* `cli.limit.unwrap_or(u32::MAX)`, `cli.max_pages.unwrap_or(u32::MAX)`
unwrap_or(o, d) == IF o = None THEN d ELSE o.v

limit == unwrap_or(cfg.limit, U32_MAX)

max_pages == unwrap_or(cfg.max_pages, U32_MAX)

\* the first request of an operation: its endpoint and the CLI's query
InitialRequest == [url |-> [query |-> <<>>], qp |-> <<"cli">>]

(***************************************************************************)
(* Upstream answers                                                        *)
(***************************************************************************)
\* the values a page can carry under next_page
NextPageValues(more) ==
    {None, Some(Num(2)), Some(Str(UrlString("", TRUE, << <<"page", <<"2">>>> >>)))}
        \cup (IF more
              THEN {Some(Str(UrlString("https://", TRUE, << <<"page", <<"2">>>> >>)))}
              ELSE {})

\* k items numbered after the `served` items the upstream has handed out
ItemsAfter(served, k) == [i \in 1..k |-> Obj([id |-> Num(served + i)])]

\* a page has no item array, an empty one or a full one
ItemArrays(served) ==
    {None} \cup {Some(Arr(ItemsAfter(served, k))) : k \in {0, MaxPageItems}}

PageObject(key, items, nxt, pageno) ==
    LET o0 == [total_results |-> Num(6 + pageno),
               prev_page |-> Str(UrlString("https://", TRUE,
                                 << <<"page", ToDigits(pageno - 1)>> >>))]
        o1 == IF items = None THEN o0 ELSE Insert(o0, key, items.v)
        o2 == IF nxt = None THEN o1 ELSE Insert(o1, "next_page", nxt.v)
    IN  Obj(o2)

\* the bodies of a 2xx answer: a JSON object, or text that is not JSON
\* (parse_json then yields a JSON string); the upstream reports another
\* total_results and another prev_page on every page
Bodies(key, served, pageno, more) ==
    {Str("raw")} \cup
    {PageObject(key, items, nxt, pageno) :
        items \in ItemArrays(served), nxt \in NextPageValues(more)}

\* the bodies followed for an operation that makes a single call
SingleBodies(key) ==
    {Str("raw"), PageObject(key, Some(Arr(ItemsAfter(0, 1))), None, 1),
     Obj([id |-> Num(1), src |-> Obj([original |-> Str("u")])])}

\* the items the fetched pages carried under `key`, in page order
RECURSIVE ItemsOf(_, _)
ItemsOf(pagesSeq, key) ==
    IF pagesSeq = <<>> THEN <<>>
    ELSE LET b == pagesSeq[Len(pagesSeq)].body
             here == IF b.t = "obj" /\ key \in DOMAIN b.v /\ b.v[key].t = "arr"
                     THEN b.v[key].v ELSE <<>>
         IN  ItemsOf(SubSeq(pagesSeq, 1, Len(pagesSeq) - 1), key) \o here

\* the upstream of this run has a next page after every page
Endless == "upstream" \in DOMAIN cfg

\* the bodies of an upstream without a last page: every page carries a
\* valid next link and an empty item array (odd pages) or none (even
\* pages); the first page may also be a full one
EndlessBodies(key, served, pageno) ==
    {PageObject(key, items,
                Some(Str(UrlString("https://", TRUE, << <<"page", <<"2">>>> >>))), pageno) :
        items \in {IF pageno % 2 = 1 THEN Some(Arr(<<>>)) ELSE None}
                    \cup (IF pageno = 1 THEN {Some(Arr(ItemsAfter(served, MaxPageItems)))}
                          ELSE {})}

Answers ==
    LET key    == in_key(op)
        paged  == Route(op, cfg) = "paginated"
        served == Len(ItemsOf(fetched, key))
        more   == Len(fetched) + 1 < MaxUpstreamPages
        codes  == IF paged THEN PagedStatuses ELSE Statuses
        hdrs   == IF paged THEN {None} ELSE RetryAfterHeaders
    IN  {[status |-> s, retry_after |-> None, body |-> b] :
            s \in {x \in codes : is_success(x)},
            b \in IF paged /\ Endless THEN EndlessBodies(key, served, Len(fetched) + 1)
                   ELSE IF paged THEN Bodies(key, served, Len(fetched) + 1, more)
                   ELSE SingleBodies(key)}
        \cup
        {[status |-> s, retry_after |-> h, body |-> Str("")] :
            s \in {x \in codes : is_retryable(x)}, h \in hdrs}
        \cup
        {[status |-> s, retry_after |-> None, body |-> Str("")] :
            s \in {x \in codes : ~is_success(x) /\ ~is_retryable(x)}}

(***************************************************************************)
(* Initial states: one operation, its configuration, nothing sent yet      *)
(***************************************************************************)
Config(m, ra, oc, a, l, mp) ==
    [max_retries |-> m, retry_after |-> ra, overflow_checks |-> oc,
     all |-> a, limit |-> l, max_pages |-> mp]

\* single-request runs with the retry budgets of everyday use
SmallConfigs ==
    {Config(m, ra, TRUE, FALSE, None, None) :
        m \in 0..SmallRetries, ra \in {None, Some(7)}}

\* single-request runs with a large retry budget, on both kinds of build
LargeConfigs ==
    {Config(MaxRetries, None, oc, FALSE, None, None) : oc \in BOOLEAN}

\* paginated runs
PagedConfigs ==
    {Config(PagedRetries, None, TRUE, l = None /\ mp = None, l, mp) :
        l \in {None} \cup {Some(n) : n \in 0..MaxLimit},
        mp \in {None} \cup {Some(n) : n \in 0..MaxPagesArg}}

\* "url" is `photos url`: photos_get, then the link of one size
Inputs ==
    (Ops \X SmallConfigs) \cup ({"get"} \X LargeConfigs)
        \cup ({"search"} \X PagedConfigs)
        \cup ({"collections"} \X {Config(PagedRetries, None, TRUE, TRUE, None, None)})
        \cup (({"url"} \cup LocalOps) \X {Config(0, None, TRUE, FALSE, None, None)})

NoDiag == [secrets |-> None, log |-> None, err |-> None]

NoOutput == [stdout |-> None, stderr |-> None, exit |-> None]

Idle ==
    /\ attempt = 0
    /\ requests = 0
    /\ sent = 0
    /\ ans = None
    /\ slept = None
    /\ result = None
    /\ diag = NoDiag
    /\ pages = 0
    /\ collected = 0
    /\ next = None
    /\ aggregate = <<>>
    /\ resp = None
    /\ cursor = 0
    /\ fetched = <<>>
    /\ reachable = None
    /\ emitted = NoOutput

Init ==
    /\ \E i \in Inputs : op = i[1] /\ cfg = i[2]
    /\ pc = "call"
    /\ Idle
    /\ fn = None

agg_vars == <<pages, collected, next, aggregate, resp, cursor, fetched>>

io_vars == <<reachable, emitted>>

(***************************************************************************)
(* api.rs req / req_bytes: the retry loop                                  *)
(***************************************************************************)
\* fresh_attempt that carries the counter over from the previous call
fresh_attempt_carried(a) == a

\* `let mut attempt = 0`: the counter of a call of req starts at 0
fresh_attempt(a) == 0

\* entry of req(url, qp): `attempt = 0`, then the first send()
ReqStart(r) ==
    /\ attempt' = fresh_attempt(attempt)
    /\ requests' = 1
    /\ sent' = sent + 1
    /\ ans' = [t |-> "pending", req |-> r]
    /\ slept' = None
    /\ pc' = "await"

\* photos_get, req_bytes, and the list operations without --all/--limit/--max-pages
CallReq ==
    /\ pc = "call"
    /\ Route(op, cfg) = "req"
    /\ ReqStart(InitialRequest)
    /\ UNCHANGED <<cfg, op, result, diag, agg_vars, fn, io_vars>>

Sleep(d) ==
    IF d.panic
    THEN pc' = "panicked" /\ slept' = slept
    ELSE /\ pc' = "sleep"
         /\ slept' = [ms |-> d.ms, overflow |-> d.overflow]

\* the Ok(resp) arm of the match in req
RecvResponse ==
    /\ pc = "await"
    /\ Route(op, cfg) # "direct"
    /\ \E a \in Answers, draw \in Draws :
        LET r == [t |-> "resp", req |-> ans.req, status |-> a.status,
                  retry_after |-> a.retry_after, body |-> a.body]
        IN  /\ ans' = r
            /\ IF is_success(r.status)
               THEN /\ pc' = "req_ok"
                    /\ UNCHANGED <<attempt, slept, result>>
               ELSE IF is_retryable(r.status) /\ budget_left(attempt, cfg.max_retries)
               THEN /\ attempt' = attempt + 1
                    /\ Sleep(retry_after_delay(r, attempt + 1, cfg.retry_after,
                                               draw, cfg.overflow_checks))
                    /\ UNCHANGED result
               ELSE /\ result' = http_error(r)
                    /\ pc' = "returned"
                    /\ UNCHANGED <<attempt, slept>>
    /\ UNCHANGED <<cfg, op, requests, sent, diag, agg_vars, fn, io_vars>>

\* the credentials of the run and its twin, fixed by the first error text
PairsNow == IF diag.secrets = None THEN SecretPairs ELSE {diag.secrets.v}

\* the Err(e) arm of the match in req
RecvError ==
    /\ pc = "await"
    /\ Route(op, cfg) # "direct"
    /\ \E p \in PairsNow, draw \in Draws :
        LET e    == ErrorText(p[1])
            twin == ErrorText(p[2])
        IN  /\ ans' = [t |-> "error", req |-> ans.req, text |-> e]
            /\ IF budget_left(attempt, cfg.max_retries)
               THEN /\ attempt' = attempt + 1
                    /\ Sleep(backoff_delay(attempt + 1, draw, cfg.overflow_checks))
                    /\ diag' = [diag EXCEPT !.secrets = Some(p),
                                            !.log = Some(<<redact(e), redact(twin)>>)]
                    /\ UNCHANGED result
               ELSE /\ result' = [t |-> "transport", text |-> e]
                    /\ diag' = [diag EXCEPT !.secrets = Some(p),
                                            !.err = Some(<<e, twin>>)]
                    /\ pc' = "returned"
                    /\ UNCHANGED <<attempt, slept>>
    /\ UNCHANGED <<cfg, op, requests, sent, agg_vars, fn, io_vars>>

\* the sleep is over: `continue`, and the next send()
Retry ==
    /\ pc = "sleep"
    /\ requests' = requests + 1
    /\ sent' = sent + 1
    /\ ans' = [t |-> "pending", req |-> ans.req]
    /\ slept' = None
    /\ pc' = "await"
    /\ UNCHANGED <<cfg, op, attempt, result, diag, agg_vars, fn, io_vars>>

\* req returned Ok to a caller that returns it as it is
ReturnOk ==
    /\ pc = "req_ok"
    /\ Route(op, cfg) = "req"
    /\ result' = [t |-> "ok", body |-> ans.body]
    /\ pc' = "returned"
    /\ UNCHANGED <<cfg, op, attempt, requests, sent, ans, slept, diag, agg_vars, fn, io_vars>>

(***************************************************************************)
(* api.rs quota_view / util_ping: one send(), no loop                      *)
(***************************************************************************)
CallDirect ==
    /\ pc = "call"
    /\ Route(op, cfg) = "direct"
    /\ requests' = 1
    /\ sent' = sent + 1
    /\ ans' = [t |-> "pending", req |-> InitialRequest]
    /\ pc' = "direct_await"
    /\ UNCHANGED <<cfg, op, attempt, slept, result, diag, agg_vars, fn, io_vars>>

\* quota_view: `send().await?`, then http_error unless 2xx, else headers + sample
\* util_ping:  `send().await?`, then Ok(()) if 2xx, else http_error
\* run_quota calls util_ping first and keeps only `.is_ok()` of its result,
\* dropping the response or the error
RecvDirect ==
    /\ pc = "direct_await"
    /\ \/ \E a \in Answers :
            LET r == [t |-> "resp", req |-> ans.req, status |-> a.status,
                      retry_after |-> a.retry_after, body |-> a.body]
            IN  /\ diag' = diag
                /\ IF op = "quota" /\ reachable = None
                   THEN /\ reachable' = Some(is_success(r.status))
                        /\ ans' = None
                        /\ pc' = "call"
                        /\ UNCHANGED result
                   ELSE /\ ans' = r
                        /\ result' = IF is_success(r.status)
                                     THEN [t |-> "ok",
                                           body |-> IF op = "quota"
                                                    THEN Obj([k \in {"sample"} |-> r.body])
                                                    ELSE None]
                                     ELSE http_error(r)
                        /\ pc' = "returned"
                        /\ UNCHANGED reachable
       \/ \E p \in PairsNow :
            /\ IF op = "quota" /\ reachable = None
               THEN /\ reachable' = Some(FALSE)
                    /\ ans' = None
                    /\ pc' = "call"
                    /\ UNCHANGED <<result, diag>>
               ELSE /\ ans' = [t |-> "error", req |-> ans.req, text |-> ErrorText(p[1])]
                    /\ result' = [t |-> "transport", text |-> ErrorText(p[1])]
                    /\ diag' = [diag EXCEPT !.secrets = Some(p),
                                            !.err = Some(<<ErrorText(p[1]), ErrorText(p[2])>>)]
                    /\ pc' = "returned"
                    /\ UNCHANGED reachable
    /\ UNCHANGED <<cfg, op, attempt, requests, sent, slept, agg_vars, fn, emitted>>

(***************************************************************************)
(* api.rs req_paginated                                                    *)
(***************************************************************************)
\* lines 293-302: the locals, and the seeded destination arrays
CallPaginated ==
    /\ pc = "call"
    /\ Route(op, cfg) = "paginated"
    /\ next' = Some(InitialRequest)
    /\ pages' = 0
    /\ collected' = 0
    /\ aggregate' = [k \in {out_key(op)} |-> Arr(<<>>)]
    /\ pc' = "loop"
    /\ UNCHANGED <<cfg, op, attempt, requests, sent, ans, slept, result, diag,
                   resp, cursor, fetched, fn, io_vars>>

\* caps_before without the test: the first page is always fetched
caps_before_never(p, c) == FALSE

\* line 304, before the fetch: `pages >= max_pages || collected >= limit`
caps_before(p, c) == p >= max_pages \/ c >= limit

\* caps_after without the test of the item limit
caps_after_pages_only(p, c) == p >= max_pages

\* line 332, after the merge: `collected >= limit || pages >= max_pages`
caps_after(p, c) == c >= limit \/ p >= max_pages

\* room_left off by one
room_left_inclusive(c) == c <= limit

\* line 324: `collected < limit`
room_left(c) == c < limit

\* next_pages on a counter that wraps before it reaches u32::MAX
next_pages_wrapped(p) == (p + 1) % U32_MAX

\* next_pages without the increment
next_pages_stuck(p) == p

\* line 331: `pages += 1`
next_pages(p) == p + 1

\* `Ok(JsonValue::Object(aggregate))`
ReturnAggregate(agg) ==
    /\ result' = [t |-> "ok", body |-> Obj(agg)]
    /\ pc' = "returned"

\* lines 303-307: `while let Some((u, q)) = next.take()`, the caps, the call of req
LoopHead ==
    /\ pc = "loop"
    \* the history of fetched pages is kept within the range of `pages`
    /\ next = None \/ caps_before(pages, collected) \/ Len(fetched) <= U32_MAX
    /\ next' = None
    /\ IF next = None \/ caps_before(pages, collected)
       THEN /\ ReturnAggregate(aggregate)
            /\ UNCHANGED <<attempt, requests, sent, ans, slept>>
       ELSE /\ ReqStart(next.v)
            /\ UNCHANGED result
    /\ UNCHANGED <<cfg, op, diag, pages, collected, aggregate, resp, cursor,
                   fetched, fn, io_vars>>

\* first_page that takes every page for the first one
first_page_always(p) == TRUE

\* line 309: `if pages == 0`
first_page(p) == p = 0

\* carried_over that copies the next-page link as well
carried_over_with_link(body, agg) ==
    IF body.t = "obj"
    THEN [k \in (DOMAIN agg) \cup ((DOMAIN body.v) \ {in_key(op)}) |->
             IF k \in (DOMAIN body.v) \ {in_key(op)}
             THEN body.v[k] ELSE agg[k]]
    ELSE agg

\* lines 308-317: the top-level fields of the first page that are carried over
carried_over(body, agg) ==
    IF body.t = "obj"
    THEN [k \in (DOMAIN agg) \cup ((DOMAIN body.v) \ {in_key(op), "next_page"}) |->
             IF k \in (DOMAIN body.v) \ {in_key(op), "next_page"}
             THEN body.v[k] ELSE agg[k]]
    ELSE agg

\* req returned Ok(resp) to req_paginated
PageFetched ==
    /\ pc = "req_ok"
    /\ Route(op, cfg) = "paginated"
    /\ resp' = ans.body
    /\ aggregate' = IF first_page(pages) THEN carried_over(ans.body, aggregate)
                    ELSE aggregate
    /\ fetched' = Append(fetched, [req |-> ans.req, body |-> ans.body])
    /\ cursor' = 1
    /\ pc' = "merge"
    \* the locals of req are gone with its return
    /\ attempt' = fresh_attempt(attempt)
    /\ requests' = 0
    /\ ans' = None
    /\ UNCHANGED <<cfg, op, sent, slept, result, diag, pages, collected, next, fn, io_vars>>

\* `resp.get(*in_key).and_then(|v| v.as_array())`
page_items(body, key) ==
    IF body.t = "obj" /\ key \in DOMAIN body.v /\ body.v[key].t = "arr"
    THEN Some(body.v[key].v) ELSE None

\* lines 323-328: one turn of `for item in arr`
MergeItem ==
    /\ pc = "merge"
    /\ page_items(resp, in_key(op)) # None
    /\ cursor <= Len(page_items(resp, in_key(op)).v)
    /\ LET item == page_items(resp, in_key(op)).v[cursor]
           dest == aggregate[out_key(op)].v
       IN  IF room_left(collected)
           THEN /\ aggregate' = [aggregate EXCEPT ![out_key(op)] = Arr(Append(dest, item))]
                /\ collected' = collected + 1
           ELSE UNCHANGED <<aggregate, collected>>
    /\ cursor' = cursor + 1
    /\ UNCHANGED <<cfg, op, pc, attempt, requests, sent, ans, slept, result, diag,
                   pages, next, resp, fetched, fn, io_vars>>

\* next_request that keeps the query parameters of the first request
next_request_with_query(body) ==
    IF body.t = "obj" /\ "next_page" \in DOMAIN body.v /\ body.v["next_page"].t = "str"
       /\ Url_parse(body.v["next_page"].v) # None
    THEN Some([url |-> Url_parse(body.v["next_page"].v).v, qp |-> <<"cli">>])
    ELSE None

\* `resp.get("next_page").and_then(|v| v.as_str())`, then Url::parse
next_request(body) ==
    IF body.t = "obj" /\ "next_page" \in DOMAIN body.v /\ body.v["next_page"].t = "str"
       /\ Url_parse(body.v["next_page"].v) # None
    THEN Some([url |-> Url_parse(body.v["next_page"].v).v, qp |-> <<>>])
    ELSE None

\* lines 331-344: the page is merged: count it, test the caps, follow the link
Advance ==
    /\ pc = "merge"
    /\ IF page_items(resp, in_key(op)) = None THEN TRUE
       ELSE cursor > Len(page_items(resp, in_key(op)).v)
    /\ pages' = next_pages(pages)
    /\ IF caps_after(next_pages(pages), collected) \/ next_request(resp) = None
       THEN /\ ReturnAggregate(aggregate)
            /\ next' = next
       ELSE /\ next' = next_request(resp)
            /\ pc' = "loop"
            /\ UNCHANGED result
    /\ UNCHANGED <<cfg, op, attempt, requests, sent, ans, slept, diag, collected,
                   aggregate, resp, cursor, fetched, fn, io_vars>>


(***************************************************************************)
(* req_paginated against an upstream that never runs out of pages, with    *)
(* a finite limit or a finite max_pages                                    *)
(***************************************************************************)
\* the configuration c of a run whose upstream has no last page
WithUpstream(c) ==
    [k \in (DOMAIN c) \cup {"upstream"} |-> IF k = "upstream" THEN "endless" ELSE c[k]]

InitLive ==
    /\ op = "search"
    /\ \E c \in PagedConfigs :
          /\ c.limit # None \/ c.max_pages # None
          /\ cfg = WithUpstream(c)
    /\ pc = "call"
    /\ Idle
    /\ fn = None

NextLive ==
    \/ CallPaginated
    \/ LoopHead
    \/ RecvResponse
    \/ RecvError
    \/ Retry
    \/ PageFetched
    \/ MergeItem
    \/ Advance

\* the runtime drives the future to completion, and every request is
\* answered or times out
SpecLive == InitLive /\ [][NextLive]_vars /\ WF_vars(NextLive)

(***************************************************************************)
(* backoff_delay as a function of its argument, on both kinds of build     *)
(***************************************************************************)
InitBackoff ==
    /\ op = "get"
    /\ cfg = Config(0, None, TRUE, FALSE, None, None)
    /\ pc = "fn"
    /\ Idle
    /\ \E a \in 0..MaxAttempt, oc \in BOOLEAN :
        fn = [name |-> "backoff_delay", attempt |-> a, overflow_checks |-> oc,
              out |-> None]

ApplyBackoff ==
    /\ pc = "fn"
    /\ fn.name = "backoff_delay"
    /\ fn.out = None
    /\ \E draw \in Draws :
        fn' = [fn EXCEPT !.out = backoff_delay(fn.attempt, draw, fn.overflow_checks)]
    /\ UNCHANGED <<cfg, op, pc, attempt, requests, sent, ans, slept, result, diag,
                   agg_vars, io_vars>>

NextBackoff == ApplyBackoff

SpecBackoff == InitBackoff /\ [][NextBackoff]_vars

(***************************************************************************)
(* cli.rs shape_output and output.rs parse_page_number                     *)
(***************************************************************************)
Null == [t |-> "null"]

Bool(b) == [t |-> "bool", v |-> b]

\* a JSON number with a fractional part: whole.tenths
Float(whole, tenths) == [t |-> "float", v |-> <<whole, tenths>>]

\* Value::is_number
is_number(v) == v.t \in {"num", "float"}

\* Value::as_u64: only a non-negative integer
as_u64(v) == IF v.t = "num" /\ v.v >= 0 THEN Some(v.v) ELSE None

\* Value::as_str
as_str(v) == IF v.t = "str" THEN Some(v.v) ELSE None

\* Value::as_array
as_array(v) == IF v.t = "arr" THEN Some(v.v) ELSE None

\* Value::get with a string key: only an object has keys
get(v, k) == IF v.t = "obj" /\ k \in DOMAIN v.v THEN Some(v.v[k]) ELSE None

\* `u as u32`: the low bits of u
as_u32(u) == u % (U32_MAX + 1)

\* str::parse::<u32>: as parse::<u64>, within the range of u32
parse_u32(s) ==
    IF parse_u64(s) # None /\ parse_u64(s).v <= U32_MAX THEN parse_u64(s) ELSE None

\* the first query pair named "page" whose value parses as u32
RECURSIVE first_page_pair(_)
first_page_pair(pairs) ==
    IF pairs = <<>> THEN None
    ELSE IF pairs[1][1] = "page" /\ parse_u32(pairs[1][2]) # None
    THEN parse_u32(pairs[1][2])
    ELSE first_page_pair(Tail(pairs))

\* parse_page_number that accepts absolute URLs only
parse_page_number_absolute_only(url) ==
    IF starts_with_http(url) /\ url.wellformed
    THEN first_page_pair(url.query)
    ELSE None

\* output.rs parse_page_number
parse_page_number(url) ==
    LET u == IF starts_with_http(url)
             THEN (IF url.wellformed THEN Some(url.query) ELSE None)
             ELSE (IF url.wellformed THEN Some(url.query) ELSE None)
    IN  IF u = None THEN None ELSE first_page_pair(u.v)

\* shape_keys in the opposite order
shape_keys_reversed == <<"media", "collections", "videos", "photos">>

\* the keys shape_output scans for an item array, in order
shape_keys == <<"photos", "videos", "collections", "media">>

\* the value of the first of `keys` that holds an array in obj
RECURSIVE first_array(_, _)
first_array(obj, keys) ==
    IF keys = <<>> THEN None
    ELSE IF get(obj, keys[1]) # None /\ as_array(get(obj, keys[1]).v) # None
    THEN Some(Arr(as_array(get(obj, keys[1]).v).v))
    ELSE first_array(obj, Tail(keys))

\* next_page_num / prev_page_num of shape_output
page_num(input, field) ==
    LET v == get(input, field)
    IN  IF v = None THEN None
        ELSE IF as_u64(v.v) # None THEN Some(as_u32(as_u64(v.v).v))
        ELSE IF as_str(v.v) # None THEN parse_page_number(as_str(v.v).v)
        ELSE None

\* `match .. { Some(p) => json!(p), None => Value::Null }`
json_or_null(o) == IF o = None THEN Null ELSE Num(o.v)

\* cli.rs shape_output: the pair (data, meta)
shape_output(input) ==
    LET total == IF get(input, "total_results") = None THEN None
                 ELSE as_u64(get(input, "total_results").v)
        meta0 == IF total = None THEN <<>>
                 ELSE [k \in {"total_results"} |-> Num(total.v)]
        meta1 == Insert(meta0, "next_page", json_or_null(page_num(input, "next_page")))
        meta2 == Insert(meta1, "prev_page", json_or_null(page_num(input, "prev_page")))
        items == IF input.t = "obj" THEN first_array(input, shape_keys) ELSE None
    IN  [data |-> IF items # None THEN items.v ELSE input, meta |-> Obj(meta2)]

(***************************************************************************)
(* The responses shape_output is applied to                                *)
(***************************************************************************)
PageUrls ==
    LET q2    == << <<"page", <<"2">>>>, <<"per_page", <<"2">>>>, <<"query", <<"x">>>> >>
        q10   == << <<"per_page", <<"5">>>>, <<"page", <<"1", "0">>>> >>
        qnone == << <<"foo", <<"b", "a", "r">>>> >>
        qbad  == << <<"page", <<"x">>>>, <<"page", <<"3">>>> >>
        qbig  == << <<"page", ToDigits(U32_MAX + 1)>> >>
    IN  {UrlString("https://", TRUE, q2), UrlString("", TRUE, q2),
         UrlString("http://", TRUE, q10), UrlString("", TRUE, q10),
         UrlString("https://", TRUE, qnone), UrlString("", TRUE, qnone),
         UrlString("https://", TRUE, <<>>), UrlString("https://", FALSE, q2),
         UrlString("", TRUE, qbad), UrlString("https://", TRUE, qbig)}

\* what a response can hold under next_page: nothing, null, a number
\* (within u32, above it, negative, fractional) or a URL string
NextPageFields ==
    {None, Some(Null), Some(Num(3)), Some(Num(U32_MAX + 3)), Some(Num(-1)),
     Some(Float(2, 5))}
        \cup {Some(Str(u)) : u \in PageUrls}

PrevPageFields ==
    {None, Some(Num(1)), Some(Num(U32_MAX + 2)), Some(Str(UrlString("", TRUE,
        << <<"page", <<"1">>>> >>)))}

\* what a response can hold under total_results
TotalFields ==
    {None, Some(Num(7)), Some(Num(0)), Some(Num(-1)), Some(Float(7, 5)),
     Some(Str(<<"7">>)), Some(Null)}

\* what a response can hold under the keys of shape_keys
ItemFields ==
    [photos : {None, Some(Arr(<<Num(1), Num(2)>>)), Some(Str(<<"n", "o">>))},
     videos : {None, Some(Arr(<<Num(3)>>))},
     collections : {None, Some(Arr(<<Num(4)>>)), Some(Null)},
     media : {None, Some(Arr(<<>>))}]

\* the object with the fields of f that are present
Present(f) == [k \in {x \in DOMAIN f : f[x] # None} |-> f[k].v]

ShapeInputs ==
    {Obj(Present([page |-> Some(Num(1)), per_page |-> Some(Num(2)),
                  total_results |-> t, next_page |-> n, prev_page |-> p,
                  photos |-> i.photos, videos |-> i.videos,
                  collections |-> i.collections, media |-> i.media])) :
        t \in TotalFields, n \in NextPageFields, p \in PrevPageFields,
        i \in ItemFields}
        \cup {Arr(<<Num(1)>>), Str(<<"r", "a", "w">>), Null}

InitShape ==
    /\ op = "search"
    /\ cfg = Config(0, None, TRUE, FALSE, None, None)
    /\ pc = "fn"
    /\ Idle
    /\ \E i \in ShapeInputs : fn = [name |-> "shape_output", input |-> i, out |-> None]

ApplyShape ==
    /\ pc = "fn"
    /\ fn.name = "shape_output"
    /\ fn.out = None
    /\ fn' = [fn EXCEPT !.out = shape_output(fn.input)]
    /\ UNCHANGED <<cfg, op, pc, attempt, requests, sent, ans, slept, result, diag,
                   agg_vars, io_vars>>

NextShape == ApplyShape

SpecShape == InitShape /\ [][NextShape]_vars

(***************************************************************************)
(* proj.rs: the field projector.  A selector is held as the segments that  *)
(* `path.split('.')` yields; a shorthand is a selector of one segment.     *)
(***************************************************************************)
MaxSelectors == 2

\* `head.ends_with("[*]")`, for the segments selectors are written with
ends_with_wildcard(seg) == seg \in {"a[*]", "[*]"}

\* `head.trim_end_matches("[*]")`
trim_end_matches(seg) ==
    CASE seg = "a[*]" -> "a"
      [] seg = "[*]"  -> ""
      [] OTHER        -> seg

\* Value::is_null
is_null(v) == v.t = "null"

\* merge that keeps the accumulator's value of a key both sides hold
merge_left_biased(dst, src) ==
    IF src.t = "null" THEN dst
    ELSE IF dst.t = "null" THEN src
    ELSE IF dst.t = "obj" /\ src.t = "obj"
    THEN Obj([k \in (DOMAIN dst.v) \cup (DOMAIN src.v) |->
                 IF k \in DOMAIN dst.v THEN dst.v[k] ELSE src.v[k]])
    ELSE dst

\* proj.rs merge: the new value of dst
merge(dst, src) ==
    IF is_null(src) THEN dst
    ELSE IF is_null(dst) THEN src
    ELSE IF dst.t = "obj" /\ src.t = "obj"
    THEN Obj([k \in (DOMAIN dst.v) \cup (DOMAIN src.v) |->
                 IF k \in DOMAIN src.v THEN src.v[k] ELSE dst.v[k]])
    ELSE dst

RECURSIVE select_inner(_, _)
select_inner(input, parts) ==
    IF parts = <<>> THEN input
    ELSE LET head == Head(parts)
             tail == Tail(parts)
         IN  CASE input.t = "obj" ->
                    IF head = "*" THEN Null
                    ELSE IF ends_with_wildcard(head)
                    THEN (IF trim_end_matches(head) \in DOMAIN input.v
                             /\ input.v[trim_end_matches(head)].t = "arr"
                          THEN LET arr == input.v[trim_end_matches(head)].v
                               IN  Arr([i \in 1..Len(arr) |-> select_inner(arr[i], tail)])
                          ELSE Null)
                    ELSE IF head \in DOMAIN input.v
                    THEN select_inner(input.v[head], tail)
                    ELSE Null
               [] input.t = "arr" ->
                    IF head = "[*]" \/ ends_with_wildcard(head)
                    THEN Arr([i \in 1..Len(input.v) |-> select_inner(input.v[i], tail)])
                    ELSE Null
               [] OTHER -> Null

\* select_path: split on '.', then select_inner
select_path(input, path) == select_inner(input, path)

\* make_nested that wraps the value under the last segment only
RECURSIVE make_nested_flat(_, _)
make_nested_flat(path, value) ==
    IF Len(path) <= 1 THEN Obj([k \in {Head(path)} |-> value])
    ELSE make_nested_flat(Tail(path), value)

\* make_nested: one single-key object per segment, innermost last
RECURSIVE make_nested(_, _)
make_nested(path, value) ==
    IF path = <<>> THEN value
    ELSE Obj([k \in {Head(path)} |-> make_nested(Tail(path), value)])

\* the object that keeps the fields of map whose key is in keys
filter_keys(map, keys) == Obj([k \in (DOMAIN map) \cap keys |-> map[k]])

\* the keys with `k == "id" || k.ends_with("_id") || k == "ids"`
id_keys == {"id", "ids", "user_id"}

\* the keys with `k.contains("url") || k.contains("link") || k.contains("href")`
url_keys == {"url", "link", "href"}

file_keys == {"video_files", "src"}

thumbnail_keys == {"image", "thumbnail", "thumb", "tiny"}

RECURSIVE extract_by_keys(_, _)
extract_by_keys(input, keys) ==
    CASE input.t = "obj" -> filter_keys(input.v, keys)
      [] input.t = "arr" ->
            Arr([i \in 1..Len(input.v) |-> extract_by_keys(input.v[i], keys)])
      [] OTHER -> Null

\* extract_ids and extract_urls are extract_by_keys with a test on the key
extract_ids(input) == extract_by_keys(input, id_keys)

extract_urls(input) == extract_by_keys(input, url_keys)

\* has_all that looks at the first selector only
has_all_first(fields) == fields # <<>> /\ fields[1] = <<"@all">>

\* `fields.iter().any(|f| f == "@all")`
has_all(fields) == \E i \in 1..Len(fields) : fields[i] = <<"@all">>

\* one turn of `for f in fields`: the new value of out
project_field(out, input, f) ==
    CASE f = <<"@ids">>        -> merge(out, extract_ids(input))
      [] f = <<"@urls">>       -> merge(out, extract_urls(input))
      [] f = <<"@files">>      -> merge(out, extract_by_keys(input, file_keys))
      [] f = <<"@thumbnails">> -> merge(out, extract_by_keys(input, thumbnail_keys))
      [] OTHER ->
            IF is_null(select_path(input, f)) THEN out
            ELSE merge(out, make_nested(f, select_path(input, f)))

RECURSIVE project_fields(_, _, _)
project_fields(out, input, fields) ==
    IF fields = <<>> THEN out
    ELSE project_fields(project_field(out, input, Head(fields)), input, Tail(fields))

\* proj.rs project
project(input, fields) ==
    IF fields = <<>> \/ has_all(fields) THEN input
    ELSE project_fields(Obj(<<>>), input, fields)

\* the fields minimal_item looks for first
priority_fields ==
    {"id", "url", "photographer", "alt", "title", "description", "duration"}

\* `Value::String(_) | Value::Number(_) | Value::Bool(_)`
is_scalar(v) == v.t \in {"str", "num", "float", "bool"}

\* the order in which `map.iter()` yields the keys: serde_json's Map is
\* sorted by key
map_order ==
    <<"[*]", "a", "a[*]", "b", "c", "collections", "data", "height", "id", "meta",
      "name", "next_page", "ok", "original", "photographer", "photos", "present",
      "prev_page", "reachable", "sample", "source", "src", "status",
      "total_results", "url", "width">>

\* the first key of map, in iteration order, whose value is a scalar
first_scalar(map) ==
    LET idx == {i \in 1..Len(map_order) :
                    map_order[i] \in DOMAIN map /\ is_scalar(map[map_order[i]])}
    IN  IF idx = {} THEN None
        ELSE Some(map_order[CHOOSE i \in idx : \A j \in idx : i <= j])

\* proj.rs minimal_item
minimal_item(original) ==
    IF original.t = "obj"
    THEN LET o == filter_keys(original.v, priority_fields)
         IN  IF o.v # <<>> THEN o
             ELSE IF first_scalar(original.v) = None THEN o
             ELSE filter_keys(original.v, {first_scalar(original.v).v})
    ELSE original

\* ensure_non_empty_item without the fallback
ensure_non_empty_item_never(projected, original) == projected

\* proj.rs ensure_non_empty_item
ensure_non_empty_item(projected, original) ==
    IF projected = Obj(<<>>) THEN minimal_item(original) ELSE projected

\* proj.rs project_item_with_fallback
project_item_with_fallback(item, fields) ==
    ensure_non_empty_item(project(item, fields), item)

(***************************************************************************)
(* Output: output.rs wrap_ok and emit_error, cli.rs emit_enveloped and     *)
(* emit_wrapped, the last step of each command, main.rs exit status        *)
(***************************************************************************)
\* output.rs wrap_ok: `meta` is None or Some(value)
wrap_ok(data, meta) ==
    LET meta_obj == IF meta = None THEN Obj(<<>>) ELSE meta.v
    IN  Obj([data |-> data,
             meta |-> IF meta_obj.t = "obj" THEN meta_obj ELSE Obj(<<>>)])

\* `json!({"next_page": null, "prev_page": null})`
meta_nulls == Obj([next_page |-> Null, prev_page |-> Null])

\* cli.rs emit_wrapped
emit_wrapped(payload) == wrap_ok(payload, Some(meta_nulls))

\* cli.rs DefaultFields, as selector paths
default_fields(defaults) ==
    CASE defaults = "Photos" ->
            << <<"id">>, <<"photographer">>, <<"alt">>, <<"width">>, <<"height">>,
               <<"avg_color">> >>
      [] defaults = "Videos" -> << <<"duration">>, <<"width">>, <<"height">> >>
      [] defaults = "Collections" ->
            << <<"title">>, <<"description">>, <<"media_count">> >>
      [] OTHER -> <<>>

\* `if cli.fields.is_empty() { defaults } else { cli.fields.clone() }`
fields_or_defaults(fields, defaults) ==
    IF fields = <<>> THEN default_fields(defaults) ELSE fields

\* the item mapping without the fallback
project_items_without_fallback(items, fields) ==
    [i \in 1..Len(items) |-> project(items[i], fields)]

\* proj.rs project_items_with_fallback
project_items_with_fallback(items, fields) ==
    [i \in 1..Len(items) |-> project_item_with_fallback(items[i], fields)]

\* what emit_raw_bytes writes: the bytes as they are
RawBytes(data) == [t |-> "raw", v |-> data]

\* cli.rs emit_enveloped: what is written to stdout
emit_enveloped(cli_fields, raw, data, defaults) ==
    LET fields == fields_or_defaults(cli_fields, defaults)
        shaped == shape_output(data)
    IN  IF raw THEN RawBytes(data)
        ELSE IF data.t = "obj" /\ shaped.data.t = "arr"
        THEN wrap_ok(Arr(project_items_with_fallback(shaped.data.v, fields)),
                     Some(shaped.meta))
        ELSE wrap_ok(IF data.t = "obj" THEN project_item_with_fallback(data, fields)
                     ELSE project(data, fields),
                     Some(shaped.meta))

\* output.rs emit_error: the error as a structured document
emit_error(err) == Obj([error |-> err])

\* main.rs: run returned Ok after writing `text` to stdout
Succeeded(text) == [stdout |-> Some(text), stderr |-> None, exit |-> Some(0)]

\* main.rs: run returned Err; emit_error, then `return Err(err)`
Failed(err) == [stdout |-> None, stderr |-> Some(emit_error(err)), exit |-> Some(1)]

\* cli.rs DefaultFields of each command
defaults_of(o) ==
    IF o = "collections" THEN "Collections"
    ELSE IF o = "quota" THEN "None"
    ELSE "Photos"

\* cli.rs run_photos, Url: after photos_get returned `data`
photos_url(data) ==
    LET src == get(data, "src")
        url == IF src = None THEN None ELSE get(src.v, "original")
        str == IF url = None THEN None ELSE as_str(url.v)
    IN  IF str = None
        THEN Failed([t |-> "anyhow", text |-> "src.original not found"])
        ELSE Succeeded(Obj([data |-> Str(str.v),
                            meta |-> Obj([id |-> Str("1"), size |-> Str("original")])]))

\* cli.rs run_quota: after util_ping and quota_view
quota_data(res, ping_ok) ==
    LET data == IF res.t = "ok" THEN res.body ELSE Obj(<<>>)
    IN  IF data.t = "obj" THEN Obj(Insert(data.v, "reachable", Bool(ping_ok)))
        ELSE data

\* the payloads of the commands that stay local
local_payload(o) ==
    IF o = "auth_status"
    THEN Obj([source |-> Str("config"), present |-> Bool(TRUE)])
    ELSE Obj([status |-> Str("ok")])

\* run_auth Status; run_config Set, which fails on an unsupported key
CallLocal ==
    /\ pc = "call"
    /\ Route(op, cfg) = "local"
    /\ \E supported \in BOOLEAN :
        result' = IF op = "config_set" /\ ~supported
                  THEN [t |-> "anyhow", text |-> "unsupported key"]
                  ELSE [t |-> "ok", body |-> local_payload(op)]
    /\ pc' = "returned"
    /\ UNCHANGED <<cfg, op, attempt, requests, sent, ans, slept, diag, agg_vars, fn,
                   io_vars>>

\* the rest of the command once its client call has returned, and main.rs
Emit ==
    /\ pc = "returned"
    /\ emitted = NoOutput
    /\ emitted' =
        IF op = "quota"
        THEN Succeeded(emit_enveloped(<<>>, FALSE,
                                      quota_data(result, reachable.v), "None"))
        ELSE IF result.t # "ok" THEN Failed(result)
        ELSE IF op = "bytes" THEN Succeeded(RawBytes(result.body))
        ELSE IF op = "ping" THEN Succeeded(emit_wrapped(Obj([ok |-> Bool(TRUE)])))
        ELSE IF op \in LocalOps THEN Succeeded(wrap_ok(result.body, Some(meta_nulls)))
        ELSE IF op = "url" THEN photos_url(result.body)
        ELSE Succeeded(emit_enveloped(<<>>, FALSE, result.body, defaults_of(op)))
    /\ UNCHANGED <<cfg, op, pc, attempt, requests, sent, ans, slept, result, diag,
                   agg_vars, fn, reachable>>

Next ==
    \/ CallReq
    \/ RecvResponse
    \/ RecvError
    \/ Retry
    \/ ReturnOk
    \/ CallDirect
    \/ RecvDirect
    \/ CallPaginated
    \/ LoopHead
    \/ PageFetched
    \/ MergeItem
    \/ Advance
    \/ CallLocal
    \/ Emit

Spec == Init /\ [][Next]_vars

(***************************************************************************)
(* The documents and selector lists the projector is applied to            *)
(***************************************************************************)
Selectors ==
    {<<"a">>, <<"a", "b">>, <<"a", "c">>, <<"a[*]", "c">>, <<"nonexistent">>, <<"*">>,
     <<"@ids">>, <<"@urls">>, <<"@files">>, <<"@thumbnails">>, <<"@all">>}

SelectorLists ==
    UNION {[1..n -> Selectors] : n \in 0..MaxSelectors}

Documents ==
    LET inner1 == Obj([b |-> Num(1)])
        inner2 == Obj([b |-> Num(2), c |-> Num(3), id |-> Num(4)])
    IN  {Obj(Present([a |-> a, id |-> i, name |-> n, src |-> f, url |-> u])) :
            a \in {None, Some(Num(1)), Some(Null), Some(inner1), Some(inner2),
                   Some(Arr(<<inner1>>)), Some(Arr(<<inner2, Num(5)>>))},
            i \in {None, Some(Num(42))},
            n \in {None, Some(Str(<<"f", "o", "o">>))},
            f \in {None, Some(Obj([b |-> Str(<<"h">>)]))},
            u \in {None, Some(Str(<<"u">>))}}
        \cup {Arr(<<inner2, Obj([a |-> Arr(<<inner1>>)])>>), Num(1), Null}

InitProject ==
    /\ op = "get"
    /\ cfg = Config(0, None, TRUE, FALSE, None, None)
    /\ pc = "fn"
    /\ Idle
    /\ \E d \in Documents, f \in SelectorLists :
        fn = [name |-> "project", doc |-> d, fields |-> f,
              out |-> None, again |-> None, item |-> None]

\* project, and project applied to its own result
ApplyProject ==
    /\ pc = "fn"
    /\ fn.name = "project"
    /\ fn.out = None
    /\ fn' = [fn EXCEPT !.out = Some(project(fn.doc, fn.fields)),
                        !.again = Some(project(project(fn.doc, fn.fields), fn.fields))]
    /\ UNCHANGED <<cfg, op, pc, attempt, requests, sent, ans, slept, result, diag,
                   agg_vars, io_vars>>

ApplyFallback ==
    /\ pc = "fn"
    /\ fn.name = "project"
    /\ fn.out # None
    /\ fn.item = None
    /\ fn' = [fn EXCEPT !.item = Some(project_item_with_fallback(fn.doc, fn.fields))]
    /\ UNCHANGED <<cfg, op, pc, attempt, requests, sent, ans, slept, result, diag,
                   agg_vars, io_vars>>

NextProject ==
    \/ ApplyProject
    \/ ApplyFallback

SpecProject == InitProject /\ [][NextProject]_vars

(***************************************************************************)
(* The responses, field lists and payloads the output functions are        *)
(* applied to                                                              *)
(***************************************************************************)
MaxItems == 2

\* the items of a list response: the photo of the end-to-end scenario, an
\* item without dimensions, an item with nothing but a nested object, and a
\* bare number
ExamplePhoto ==
    Obj([id |-> Num(1), width |-> Num(100), height |-> Num(200),
         src |-> Obj([original |-> Str(<<"u">>)])])

ItemPool ==
    {ExamplePhoto,
     Obj([id |-> Num(2), photographer |-> Str(<<"x">>)]),
     Obj([src |-> Obj([original |-> Str(<<"u">>)])]),
     Num(7)}

ItemLists == UNION {[1..n -> ItemPool] : n \in 0..MaxItems}

\* a list response: the item array under its key, with or without a total
ListResponse(key, items, total) ==
    Obj(Insert(Present([total_results |-> total]), key, Arr(items)))

\* the values of --fields
FieldLists ==
    {<<>>, << <<"width">>, <<"height">> >>, << <<"id">> >>,
     << <<"src", "original">> >>, << <<"nonexistent">> >>, << <<"@all">> >>}

\* the payloads handed to wrap_ok and the meta values that go with them
Payloads == ItemPool \cup {Obj(<<>>), Null, Arr(<<ExamplePhoto>>)}

MetaValues == {None, Some(meta_nulls), Some(Obj(<<>>)), Some(Num(1)), Some(Null)}

InitOutput ==
    /\ op = "search"
    /\ cfg = Config(0, None, TRUE, FALSE, None, None)
    /\ pc = "fn"
    /\ Idle
    /\ \/ \E key \in {"photos", "collections"}, items \in ItemLists,
             total \in {None, Some(Num(9))}, f \in FieldLists,
             d \in {"Photos", "None"}, r \in BOOLEAN :
            fn = [name |-> "emit_enveloped", items |-> items,
                  doc |-> ListResponse(key, items, total),
                  fields |-> f, defaults |-> d, raw |-> r, out |-> None]
       \/ \E p \in Payloads, m \in MetaValues :
            fn = [name |-> "wrap_ok", payload |-> p, meta |-> m, out |-> None]

ApplyEnveloped ==
    /\ pc = "fn"
    /\ fn.name = "emit_enveloped"
    /\ fn.out = None
    /\ fn' = [fn EXCEPT
                !.out = Some(emit_enveloped(fn.fields, fn.raw, fn.doc, fn.defaults))]
    /\ UNCHANGED <<cfg, op, pc, attempt, requests, sent, ans, slept, result, diag,
                   agg_vars, io_vars>>

ApplyWrapOk ==
    /\ pc = "fn"
    /\ fn.name = "wrap_ok"
    /\ fn.out = None
    /\ fn' = [fn EXCEPT !.out = Some(wrap_ok(fn.payload, fn.meta))]
    /\ UNCHANGED <<cfg, op, pc, attempt, requests, sent, ans, slept, result, diag,
                   agg_vars, io_vars>>

NextOutput ==
    \/ ApplyEnveloped
    \/ ApplyWrapOk

SpecOutput == InitOutput /\ [][NextOutput]_vars

(***************************************************************************)
(* Properties                                                              *)
(***************************************************************************)
Paged == Route(op, cfg) = "paginated"

\* the answer the retry loop last handled is a retryable failure
LastRetryable ==
    \/ ans.t = "error"
    \/ ans.t = "resp" /\ is_retryable(ans.status)

\* C1: one call of req with max_retries = N sends k + 1 requests when k
\* retryable failures are followed by a 2xx, whose body it returns; it sends
\* N + 1 requests and fails when every answer is a retryable failure; the
\* attempt counter never exceeds N.
C1_RetryBudget ==
    Route(op, cfg) = "req" =>
        /\ attempt <= cfg.max_retries
        /\ pc = "req_ok" => requests = attempt + 1 /\ is_success(ans.status)
        /\ (pc = "returned" /\ result.t = "ok") =>
                requests = attempt + 1 /\ result.body = ans.body
        /\ (pc \in {"returned", "panicked"} /\ LastRetryable) =>
                /\ requests = cfg.max_retries + 1
                /\ result.t \in {"http", "transport"}

\* C2: backoff_delay(attempt) returns, for every attempt, without overflow
\* or panic, a delay between 0 ms and 5000 ms.
C2_BackoffInRange ==
    (pc = "fn" /\ fn.name = "backoff_delay" /\ fn.out # None) =>
        /\ ~fn.out.panic
        /\ ~fn.out.overflow
        /\ fn.out.ms \in 0..max

\* the delays backoff_delay can return for attempt a
BackoffDelays(a) ==
    {backoff_delay(a, d, cfg.overflow_checks).ms :
        d \in {x \in Draws : ~backoff_delay(a, x, cfg.overflow_checks).panic}}

\* C3: the sleep before the retry of a 429 / 5xx answer is the override if
\* one is configured, else the answer's Retry-After if it parses as seconds,
\* else a backoff delay.
C3_SleepPriority ==
    (pc = "sleep" /\ ans.t = "resp") =>
        IF cfg.retry_after # None
        THEN slept.ms = cfg.retry_after.v * 1000
        ELSE IF ans.retry_after \in {Some(<<"1">>), Some(<<"+", "2">>)}
        THEN slept.ms = (IF ans.retry_after.v = <<"1">> THEN 1000 ELSE 2000)
        ELSE slept.ms \in BackoffDelays(attempt)

\* an override and a parseable Retry-After compete, and the override wins
C3_Witness ==
    /\ pc = "sleep"
    /\ ans.t = "resp"
    /\ cfg.retry_after = Some(7)
    /\ ans.retry_after = Some(<<"1">>)
    /\ slept.ms = 7000

\* C4: an answer that is neither 2xx nor 429 nor 5xx ends the call at once
\* with an HTTP error carrying its code and reason phrase; when it is the
\* first answer, one request was sent and nothing slept.
C4_NoRetryOnOtherStatus ==
    (ans.t = "resp" /\ ans.status \in {400, 401, 404}) =>
        /\ pc = "returned"
        /\ result.t = "http"
        /\ result.code = ans.status
        /\ result.reason = (IF ans.status = 401 THEN "Unauthorized"
                            ELSE IF ans.status = 404 THEN "Not Found"
                            ELSE "Bad Request")
        /\ requests = attempt + 1
        /\ (attempt = 0 => requests = 1 /\ slept = None)

\* a 404 as first answer with all of the budget left
C4_Witness ==
    /\ Route(op, cfg) = "req"
    /\ ans.t = "resp"
    /\ ans.status = 404
    /\ cfg.max_retries = SmallRetries
    /\ attempt = 0
    /\ requests = 1
    /\ pc = "returned"

\* C5: the diagnostics of a run whose transport failures exhaust the budget
\* (the terminal error and the retry log lines) are the same as those of the
\* run that differs only in the secret.
C5_DiagnosticsHideSecret ==
    Route(op, cfg) # "direct" =>
        /\ diag.err # None => diag.err.v[1] = diag.err.v[2]
        /\ diag.log # None => diag.log.v[1] = diag.log.v[2]

\* a first answer of 429 / 5xx has been handled and the budget allows a retry
FirstAnswerRetryable ==
    /\ ans.t = "resp"
    /\ is_retryable(ans.status)
    /\ requests = 1
    /\ cfg.max_retries >= 1

\* C6 as stated: for every operation, a first answer of 429 / 5xx with
\* max_retries >= 1 leads to a retry.
C6_EveryCallRetries == FirstAnswerRetryable => pc = "sleep"

\* C6 amended: the operations that go through req / req_bytes retry;
\* quota view and ping send one request per call and fail on it.
C6_ReqCallsRetry ==
    FirstAnswerRetryable =>
        IF op \in DirectOps
        THEN pc = "returned" /\ result = http_error(ans) /\ requests = 1
        ELSE pc = "sleep" /\ attempt = 1

\* the raw-bytes call sleeps before its first retry
C6_Witness ==
    /\ op = "bytes"
    /\ FirstAnswerRetryable
    /\ pc = "sleep"

\* the destination sequence of the running aggregate
Dest == aggregate[out_key(op)].v

\* C7: while req_paginated runs, the items in the destination sequence are
\* at most `limit` and as many as `collected`.
C7_ItemsWithinLimit ==
    (Paged /\ pc # "call") =>
        /\ Len(Dest) <= limit
        /\ Len(Dest) = collected

\* the page is larger than the room left: it is cut before its last item
C7_Witness ==
    /\ Paged
    /\ pc = "merge"
    /\ collected = limit
    /\ collected > 0
    /\ cursor <= Len(page_items(resp, in_key(op)).v)

Min(a, b) == IF a <= b THEN a ELSE b

\* C8: with limit L >= 1 the aggregate returns the first min(L, items on the
\* fetched pages) items in page order, and no page is requested once
\* `collected` has reached L.
C8_FirstItemsInOrder ==
    (Paged /\ pc # "call" /\ limit >= 1) =>
        /\ (pc = "returned" /\ result.t = "ok") =>
              LET all == ItemsOf(fetched, in_key(op))
              IN  /\ result.body.v[out_key(op)].v = SubSeq(all, 1, Min(limit, Len(all)))
                  /\ Len(result.body.v[out_key(op)].v) = Min(limit, Len(all))
        /\ collected >= limit => pc \in {"merge", "returned"}

\* two pages of two items, limit 3: three items, two requests, and the
\* third page, which the second page links to, is not requested
C8_Witness ==
    /\ Paged
    /\ cfg.limit = Some(3)
    /\ pc = "returned"
    /\ result.t = "ok"
    /\ result.body.v[out_key(op)].v = [i \in 1..3 |-> Obj([id |-> Num(i)])]
    /\ Len(fetched) = 2
    /\ sent = 2
    /\ next_request(fetched[2].body) # None

AllLinked == \A i \in 1..Len(fetched) : next_request(fetched[i].body) # None

\* C10: pages never exceeds max_pages; with links on every page and no
\* limit, the aggregate stops after max_pages page requests and does not
\* take up the last page's link.
C10_PagesWithinCap ==
    (Paged /\ pc # "call") =>
        /\ pages <= max_pages
        /\ Len(fetched) <= max_pages
        /\ (pc = "returned" /\ result.t = "ok" /\ cfg.limit = None /\ AllLinked) =>
              /\ Len(fetched) = max_pages
              /\ pages = max_pages
              /\ next = None

C10_Witness ==
    /\ Paged
    /\ cfg.limit = None
    /\ cfg.max_pages = Some(2)
    /\ pc = "returned"
    /\ result.t = "ok"
    /\ Len(fetched) = 2
    /\ AllLinked

\* the top-level fields of a page other than its items and its next link
Metadata(body) ==
    IF body.t = "obj"
    THEN [k \in (DOMAIN body.v) \ {in_key(op), "next_page"} |-> body.v[k]]
    ELSE <<>>

\* whether sequence s starts with sequence p
IsPrefix(p, s) == Len(p) <= Len(s) /\ SubSeq(s, 1, Len(p)) = p

\* C11: once page 1 is fetched the aggregate holds, besides the destination
\* sequence, exactly the top-level fields of page 1 other than the source
\* item key and next_page, with page 1's values, whatever later pages report;
\* later pages only append to the destination sequence.
C11_FirstPageMetadata ==
    (Paged /\ Len(fetched) >= 1) =>
        /\ (DOMAIN aggregate) \ {out_key(op)} = DOMAIN Metadata(fetched[1].body)
        /\ \A k \in DOMAIN Metadata(fetched[1].body) :
              aggregate[k] = fetched[1].body.v[k]
        /\ IsPrefix(Dest, ItemsOf(fetched, in_key(op)))

\* a second page that reports another total_results and brings more items
C11_Witness ==
    /\ Paged
    /\ Len(fetched) = 2
    /\ pc = "returned"
    /\ fetched[1].body.t = "obj"
    /\ fetched[2].body.t = "obj"
    /\ fetched[2].body.v["total_results"] # fetched[1].body.v["total_results"]
    /\ aggregate["total_results"] = fetched[1].body.v["total_results"]
    /\ Len(Dest) = 2 * MaxPageItems

\* the request in flight got a failure as its last answer
LastAnswerFailed ==
    /\ ans # None
    /\ \/ ans.t = "error"
       \/ ans.t = "resp" /\ ~is_success(ans.status)

\* C12: when the request for a page fails terminally, req_paginated returns
\* that error and nothing else: the result carries no body, hence none of
\* the items collected from the earlier pages, and no request follows.
C12_PageFailureFailsAll ==
    /\ [](Paged =>
            /\ (pc = "returned" /\ ans # None) =>
                  /\ LastAnswerFailed
                  /\ ans.req = (IF fetched = <<>> THEN InitialRequest
                                ELSE next_request(fetched[Len(fetched)].body).v)
                  /\ result = (IF ans.t = "error"
                               THEN [t |-> "transport", text |-> ans.text]
                               ELSE [t |-> "http", code |-> ans.status,
                                     reason |-> canonical_reason(ans.status)])
                  /\ "body" \notin DOMAIN result
            /\ (pc = "returned" /\ result.t # "ok") => LastAnswerFailed)
    /\ [][(Paged /\ pc = "returned") => (sent' = sent /\ result' = result)]_vars

\* page 2 fails for good after page 1 brought items
C12_Witness ==
    /\ Paged
    /\ pc = "returned"
    /\ result.t = "http"
    /\ Len(fetched) = 1
    /\ collected = MaxPageItems
    /\ sent = 1 + PagedRetries + 1

\* the usable next link of a page: a string that parses as a URL
Link(body) ==
    IF body.t = "obj" /\ "next_page" \in DOMAIN body.v
       /\ body.v["next_page"].t = "str" /\ body.v["next_page"].v.scheme = "https://"
    THEN Some([query |-> body.v["next_page"].v.query])
    ELSE None

\* C13: every request after the first is the URL of the previous page's
\* next_page, with no query parameters; a page whose next_page is absent,
\* not a string or not a URL ends the pagination with a successful result
\* that holds everything collected so far.
C13_FollowsLinkOrStops ==
    (Paged /\ Len(fetched) >= 1) =>
        /\ \A i \in 2..Len(fetched) :
              /\ Link(fetched[i - 1].body) # None
              /\ fetched[i].req = [url |-> Link(fetched[i - 1].body).v, qp |-> <<>>]
        /\ (ans # None) =>
              /\ Link(fetched[Len(fetched)].body) # None
              /\ ans.req = [url |-> Link(fetched[Len(fetched)].body).v, qp |-> <<>>]
        /\ (Link(fetched[Len(fetched)].body) = None) =>
              /\ pc \in {"merge", "returned"}
              /\ pc = "returned" =>
                    /\ result.t = "ok"
                    /\ result.body = Obj(aggregate)
                    /\ LET all == ItemsOf(fetched, in_key(op))
                       IN  Dest = SubSeq(all, 1, Min(limit, Len(all)))

\* the second page is requested by the first page's link alone, and its own
\* next_page, a string that is not a URL, ends the pagination quietly
C13_Witness ==
    /\ Paged
    /\ pc = "returned"
    /\ result.t = "ok"
    /\ Len(fetched) = 2
    /\ fetched[1].req = InitialRequest
    /\ fetched[2].req = [url |-> [query |-> << <<"page", <<"2">>>> >>], qp |-> <<>>]
    /\ fetched[2].body.t = "obj"
    /\ "next_page" \in DOMAIN fetched[2].body.v
    /\ fetched[2].body.v["next_page"].t = "str"
    /\ Link(fetched[2].body) = None
    /\ cfg.limit = None /\ cfg.max_pages = None

\* shape_output has been applied
Shaped == pc = "fn" /\ fn.name = "shape_output" /\ fn.out # None

\* the integer a page parameter's text stands for
PageTexts == {<<"1">>, <<"2">>, <<"3">>, <<"1", "0">>}

IntegerOf(text) ==
    CASE text = <<"1">> -> 1 [] text = <<"2">> -> 2 [] text = <<"3">> -> 3
      [] text = <<"1", "0">> -> 10

\* the page number a URL string carries: the value of its first page
\* parameter that is a page number, or null
CarriedPage(u) ==
    LET idx == {i \in DOMAIN u.query :
                    u.query[i][1] = "page" /\ u.query[i][2] \in PageTexts}
    IN  IF u.wellformed /\ idx # {}
        THEN Num(IntegerOf(u.query[CHOOSE i \in idx : \A j \in idx : i <= j][2]))
        ELSE Null

C15_NumberUsedDirectly ==
    Shaped =>
        \A f \in {"next_page", "prev_page"} :
            (get(fn.input, f) # None /\ is_number(get(fn.input, f).v)) =>
                fn.out.meta.v[f] = get(fn.input, f).v

\* C16: meta holds total_results if and only if the response has a
\* total_results field whose value is a JSON number of any kind.
C16_TotalIffNumeric ==
    Shaped =>
        ("total_results" \in DOMAIN fn.out.meta.v
            <=> (get(fn.input, "total_results") # None
                    /\ is_number(get(fn.input, "total_results").v)))

\* the keys of the priority list that satisfy `test` in the input, in order
Priority == <<"photos", "videos", "collections", "media">>

Hits(test(_)) ==
    {i \in 1..Len(Priority) : get(fn.input, Priority[i]) # None
                               /\ test(get(fn.input, Priority[i]).v)}

First(hits) == Priority[CHOOSE i \in hits : \A j \in hits : i <= j]

IsAnything(v) == TRUE

IsArray(v) == v.t = "arr"

\* C17 as stated: the first key of the priority list that is present in the
\* response becomes data; with none present, data is the input.
C17_FirstPresentKey ==
    Shaped =>
        IF Hits(IsAnything) # {}
        THEN fn.out.data = fn.input.v[First(Hits(IsAnything))]
        ELSE fn.out.data = fn.input

\* C17 amended: the first key of the priority list whose value is an array
\* becomes data, as that array; a key that is present with another kind of
\* value is passed over; with no such key, data is the input.
C17_FirstArrayKey ==
    Shaped =>
        IF Hits(IsArray) # {}
        THEN /\ fn.out.data = fn.input.v[First(Hits(IsArray))]
             /\ fn.out.data.t = "arr"
        ELSE fn.out.data = fn.input

\* photos is present but is not an array, videos and media are arrays:
\* data is the videos array
C17_Witness ==
    /\ Shaped
    /\ get(fn.input, "photos") # None
    /\ get(fn.input, "photos").v.t = "str"
    /\ get(fn.input, "videos") # None
    /\ get(fn.input, "media") # None
    /\ fn.out.data = get(fn.input, "videos").v

\* project has been applied
Projected == pc = "fn" /\ fn.name = "project" /\ fn.out # None

\* "@all" is one of the selectors
WithAll == \E i \in 1..Len(fn.fields) : fn.fields[i] = <<"@all">>

\* C18: project(doc, []) is doc, and so is project(doc, S) for every S that
\* has "@all" at any position.
C18_Identity ==
    (Projected /\ (fn.fields = <<>> \/ WithAll)) => fn.out.v = fn.doc

\* "@all" comes second, after a selector that alone would cut the document
C18_Witness ==
    /\ Projected
    /\ fn.fields = << <<"a">>, <<"@all">> >>
    /\ fn.doc.t = "obj"
    /\ {"a", "id", "name"} \subseteq DOMAIN fn.doc.v
    /\ fn.out.v = fn.doc

\* C19 as stated: for every selector list without "@all", projecting the
\* projection again gives the projection.
C19_Idempotent ==
    (Projected /\ ~WithAll) => fn.again = fn.out

\* one of the selectors has a segment that ends with the wildcard marker
WithWildcard ==
    \E i \in 1..Len(fn.fields) : \E j \in 1..Len(fn.fields[i]) :
        fn.fields[i][j] \in {"a[*]", "[*]"}

\* C19 amended: for every selector list without "@all" and without a
\* wildcard segment, projecting the projection again gives the projection.
C19_IdempotentNoWildcard ==
    (Projected /\ ~WithAll /\ ~WithWildcard) => fn.again = fn.out

\* a dotted path and a shorthand cut the document, and cut it no further
\* the second time
C19_Witness ==
    /\ Projected
    /\ fn.fields = << <<"a", "b">>, <<"@ids">> >>
    /\ fn.doc.t = "obj"
    /\ fn.out.v = Obj([a |-> Obj([b |-> Num(2)]), id |-> Num(42)])
    /\ fn.out.v # fn.doc
    /\ fn.again = fn.out

\* the fallback has been applied
FellBack == Projected /\ fn.item # None

PriorityNames ==
    {"id", "url", "photographer", "alt", "title", "description", "duration"}

ScalarKinds == {"str", "num", "float", "bool"}

\* the keys of the document that are priority fields / hold a scalar
PriorityKeys == (DOMAIN fn.doc.v) \cap PriorityNames

ScalarKeys == {k \in DOMAIN fn.doc.v : fn.doc.v[k].t \in ScalarKinds}

\* key k comes no later than key j when the object is iterated
FirstOf(k, j) ==
    \A x, y \in 1..Len(map_order) : (map_order[x] = k /\ map_order[y] = j) => x <= y

Partial(i) ==
    LET f == fn.fields[i]
    IN  CASE f = <<"@ids">>        -> extract_ids(fn.doc)
          [] f = <<"@urls">>       -> extract_urls(fn.doc)
          [] f = <<"@files">>      -> extract_by_keys(fn.doc, file_keys)
          [] f = <<"@thumbnails">> -> extract_by_keys(fn.doc, thumbnail_keys)
          [] OTHER -> IF select_path(fn.doc, f) = Null THEN Null
                      ELSE make_nested(f, select_path(fn.doc, f))

\* the selectors whose partial result is an object that holds key k
Contributors(k) ==
    {i \in 1..Len(fn.fields) : Partial(i).t = "obj" /\ k \in DOMAIN Partial(i).v}

\* every key a partial result can hold
PartialKeys ==
    UNION {DOMAIN Partial(i).v : i \in {j \in 1..Len(fn.fields) : Partial(j).t = "obj"}}

\* C21: the output holds exactly the top-level keys that the selectors'
\* partial results on the original input hold, and under each key the
\* value of the last selector that contributes it; a partial result that is
\* not an object contributes nothing.
C21_RightBiasedMerge ==
    (Projected /\ fn.fields # <<>> /\ ~WithAll) =>
        /\ fn.out.v.t = "obj"
        /\ DOMAIN fn.out.v.v = PartialKeys
        /\ \A k \in PartialKeys :
              LET last == CHOOSE i \in Contributors(k) : \A j \in Contributors(k) : j <= i
              IN  fn.out.v.v[k] = Partial(last).v[k]

\* ["a.b", "a.c"] on an object whose a holds b and c: only a.c is left
C21_Witness ==
    /\ Projected
    /\ fn.fields = << <<"a", "b">>, <<"a", "c">> >>
    /\ fn.doc.t = "obj"
    /\ "a" \in DOMAIN fn.doc.v
    /\ fn.doc.v["a"] = Obj([b |-> Num(2), c |-> Num(3), id |-> Num(4)])
    /\ "id" \notin DOMAIN fn.doc.v
    /\ fn.out.v = Obj([a |-> Obj([c |-> Num(3)])])

\* whether a dotted path misses in v: a key of the path is absent (before a
\* wildcard segment, or in every element of the array after one), or the
\* path runs into a value it cannot enter
RECURSIVE PathMisses(_, _)
PathMisses(v, path) ==
    IF path = <<>> THEN FALSE
    ELSE LET head == Head(path)
         IN  IF v.t = "obj"
             THEN IF head = "a[*]"
                  THEN \/ "a" \notin DOMAIN v.v
                       \/ v.v["a"].t # "arr"
                       \/ /\ v.v["a"].v # <<>>
                          /\ \A i \in 1..Len(v.v["a"].v) :
                                PathMisses(v.v["a"].v[i], Tail(path))
                  ELSE \/ head \notin DOMAIN v.v
                       \/ PathMisses(v.v[head], Tail(path))
             ELSE IF v.t = "arr" /\ head = "a[*]"
             THEN v.v # <<>> /\ \A i \in 1..Len(v.v) : PathMisses(v.v[i], Tail(path))
             ELSE TRUE

\* C22: a selector list made of dotted paths that all miss projects to the
\* empty object: no key and no null placeholder.
C22_MissContributesNothing ==
    (Projected /\ fn.fields # <<>>
        /\ \A i \in 1..Len(fn.fields) :
              /\ fn.fields[i][1] \notin {"@ids", "@urls", "@files", "@thumbnails", "@all"}
              /\ PathMisses(fn.doc, fn.fields[i]))
        => fn.out.v = Obj(<<>>)

\* the sleep in progress was computed by backoff_delay
BackoffSleep ==
    /\ pc = "sleep"
    /\ \/ ans.t = "error"
       \/ ans.t = "resp" /\ cfg.retry_after = None
            /\ ans.retry_after \notin {Some(<<"1">>), Some(<<"+", "2">>)}

\* C27: the sleep before the n-th retry is the backoff delay of the attempt
\* counter before its increment, delay(n - 1): between 100 ms and 150 ms
\* before the first retry.
C27_SleepBeforeIncrement ==
    BackoffSleep =>
        /\ slept.ms \in BackoffDelays(attempt - 1)
        /\ attempt = 1 => slept.ms \in 100..150

\* the page requests made so far, the one in flight included
PageRequests == Len(fetched) + (IF ans # None THEN 1 ELSE 0)

\* C29: every page request has the whole retry budget: its attempt counter
\* starts at 0 whatever the earlier pages spent, it fails on retryable
\* answers only after max_retries + 1 requests, and P page requests send at
\* most P * (max_retries + 1) HTTP requests.
C29_BudgetPerPage ==
    Paged =>
        /\ attempt <= cfg.max_retries
        /\ pc = "await" => requests = attempt + 1
        /\ (pc = "returned" /\ ans # None /\ LastRetryable) =>
              requests = cfg.max_retries + 1
        /\ sent <= PageRequests * (cfg.max_retries + 1)

\* page 1 came after a retry, and page 2 still had its own retry before it
\* failed
C29_Witness ==
    /\ Paged
    /\ cfg.max_retries = PagedRetries
    /\ Len(fetched) = 1
    /\ pc = "returned"
    /\ result.t = "http"
    /\ requests = PagedRetries + 1
    /\ sent = 2 * (PagedRetries + 1)

\* C28: with a finite limit or a finite max_pages, req_paginated eventually
\* returns, whatever the upstream answers, also when every page carries a
\* valid next link and no item.
C28_AggregateStops == <>(pc = "returned")

\* a finite limit alone, an upstream that links on and on without an item:
\* the aggregate returns once `pages` has reached u32::MAX
C28_Witness ==
    /\ Paged
    /\ Endless
    /\ cfg.limit = Some(MaxLimit)
    /\ cfg.max_pages = None
    /\ pc = "returned"
    /\ result.t = "ok"
    /\ collected = 0
    /\ pages = U32_MAX
    /\ AllLinked

\* the standard envelope: exactly data and meta, meta an object holding
\* next_page and prev_page, each an integer or null, and at most total_results
IsEnvelope(v) ==
    /\ v.t = "obj"
    /\ DOMAIN v.v = {"data", "meta"}
    /\ v.v["meta"].t = "obj"
    /\ {"next_page", "prev_page"} \subseteq DOMAIN v.v["meta"].v
    /\ DOMAIN v.v["meta"].v \subseteq {"next_page", "prev_page", "total_results"}
    /\ \A k \in DOMAIN v.v["meta"].v :
            v.v["meta"].v[k].t = "num" \/ (k # "total_results" /\ v.v["meta"].v[k] = Null)

\* the run succeeded and wrote something other than raw bytes
WroteDocument ==
    /\ emitted.exit = Some(0)
    /\ emitted.stdout # None
    /\ emitted.stdout.v.t # "raw"

\* C24: every successful non-raw output of every command is an envelope
\* {data, meta} whose meta holds next_page and prev_page, each an integer or
\* null, plus total_results only when known.
C24_EveryOutputEnveloped == WroteDocument => IsEnvelope(emitted.stdout.v)

\* C24 for the commands other than `photos url`: list, single-resource, auth,
\* config set, quota and ping outputs are envelopes of that shape
C24_EnvelopedButUrl == (WroteDocument /\ op # "url") => IsEnvelope(emitted.stdout.v)

\* an upstream request of the operation failed terminally
UpstreamFailed ==
    \/ result # None /\ result.t \in {"http", "transport"}
    \/ reachable = Some(FALSE)

\* the process ended with the structured error as its only output
Aborted ==
    /\ emitted.stdout = None
    /\ emitted.stderr # None
    /\ emitted.exit # Some(0)

\* C26: when an upstream request of an operation fails terminally, nothing is
\* written to standard output, the structured error is the only output and
\* the exit status is not zero, for every command including quota view.
C26_FailureAborts == (emitted.exit # None /\ UpstreamFailed) => Aborted

\* C26 for the commands other than quota view
C26_FailureAbortsButQuota ==
    (emitted.exit # None /\ UpstreamFailed /\ op # "quota") => Aborted

\* the page number in the prev_page link of the first fetched page, if that
\* page is an object; the upstream numbers the link of page k with k - 1
FirstPrevPage ==
    IF fetched # <<>> /\ fetched[1].body.t = "obj" THEN Num(1 - 1) ELSE Null

\* the aggregation stopped on a cap
StoppedOnCap == pages = max_pages \/ collected = limit

\* C30: the result of the aggregate has no next_page field, so the envelope
\* of a paginated result has meta.next_page = null, also when the aggregate
\* stopped on a cap while the last page carried a valid link; meta.prev_page
\* is the first page's.
C30_NoNextPageInAggregate ==
    (Paged /\ pc = "returned" /\ result.t = "ok") =>
        /\ "next_page" \notin DOMAIN result.body.v
        /\ emitted.stdout # None =>
            /\ emitted.stdout.v.v["meta"].v["next_page"] = Null
            /\ emitted.stdout.v.v["meta"].v["prev_page"] = FirstPrevPage

\* two pages fetched, every one with a link the aggregate could follow, the
\* aggregate stopped by a cap, and the envelope written with the first page's
\* prev_page
C30_Witness ==
    /\ Paged
    /\ pc = "returned"
    /\ result.t = "ok"
    /\ Len(fetched) = 2
    /\ AllLinked
    /\ StoppedOnCap
    /\ emitted.stdout # None
    /\ emitted.stdout.v.v["meta"].v["prev_page"] = Num(0)
    /\ emitted.stdout.v.v["meta"].v["next_page"] = Null

\* emit_enveloped was applied to a list response without --raw
Enveloped == fn.name = "emit_enveloped" /\ fn.out # None /\ ~fn.raw

\* the fields in force: --fields, or the command's defaults without it
FieldsInForce == IF fn.fields = <<>> THEN default_fields(fn.defaults) ELSE fn.fields

\* C23: for a list response the output data is an array with the length and
\* the order of the source item array, each element being the projection
\* with fallback of the corresponding item alone; the photo of the scenario
\* projected with width and height yields exactly these two fields.
C23_ItemsProjectedOneByOne ==
    Enveloped =>
        LET data == fn.out.v.v["data"]
        IN  /\ data.t = "arr"
            /\ Len(data.v) = Len(fn.items)
            /\ \A i \in 1..Len(fn.items) :
                    data.v[i] = project_item_with_fallback(fn.items[i], FieldsInForce)
            /\ \A i \in 1..Len(fn.items) :
                    (fn.items[i] = ExamplePhoto
                        /\ fn.fields = << <<"width">>, <<"height">> >>) =>
                    data.v[i] = Obj([width |-> Num(100), height |-> Num(200)])

\* the photo of the scenario followed by an item without dimensions, which
\* falls back to its id and photographer
C23_Witness ==
    /\ Enveloped
    /\ fn.fields = << <<"width">>, <<"height">> >>
    /\ Len(fn.items) = 2
    /\ fn.items[1] = ExamplePhoto
    /\ fn.out.v.v["data"].v =
            <<Obj([width |-> Num(100), height |-> Num(200)]),
              Obj([id |-> Num(2), photographer |-> Str(<<"x">>)])>>

\* C25: wrap_ok(payload, None) yields an envelope with a data key and no meta
\* key; a meta key appears only when a meta value is supplied.
C25_NoMetaWithoutValue ==
    (fn.name = "wrap_ok" /\ fn.out # None) =>
        /\ "data" \in DOMAIN fn.out.v.v
        /\ "meta" \in DOMAIN fn.out.v.v <=> fn.meta # None

\* C25 as the code has it: the envelope always holds data and meta, and meta
\* is the supplied object, or the empty object when none or a non-object is
\* supplied
C25_MetaAlwaysPresent ==
    (fn.name = "wrap_ok" /\ fn.out # None) =>
        /\ DOMAIN fn.out.v.v = {"data", "meta"}
        /\ fn.out.v.v["data"] = fn.payload
        /\ fn.out.v.v["meta"] = (IF fn.meta # None /\ fn.meta.v.t = "obj"
                                 THEN fn.meta.v ELSE Obj(<<>>))

====
